---------------------------- MODULE Spec2Model ----------------------------
(***************************************************************************)
(* Model of ppymilter's socket servers (lib/ppymilter/ppymilterserver.py): *)
(* the reactor server AsyncPpyMilterServer with its asynchat connection    *)
(* handler, and ThreadedPpyMilterServer with its blocking per-thread       *)
(* connection handler.  Python 3 semantics of the file are modelled.       *)
(*                                                                         *)
(* Bytes are naturals 0..255, byte strings are sequences of them.  The     *)
(* milter dispatcher (ppymilterbase.PpyMilterDispatcher) is external: the  *)
(* outcome of each Dispatch call is an input of the action that makes it.  *)
(***************************************************************************)
EXTENDS Naturals, Sequences, FiniteSets

(* ------------------------------ bounds --------------------------------- *)
\* connection slots of the process (accepted connections, both servers)
MaxConns == 2
\* frames a client sends on one connection
MaxFrames == 2
\* length of a payload a client sends
MaxPayload == 1
\* number of responses in a list returned by Dispatch
MaxResp == 2
\* failed accept() calls that are followed
MaxAcceptErrors == 1
\* frames per connection when several connections are served at once
ServerFrames == 1

(* -------------------------- program constants -------------------------- *)
MILTER_LEN_BYTES == 4

ConnIds == 1..MaxConns
Kinds == {"async", "threaded"}
PayloadBytes == {65}
RespBytes == {82}

\* sequences over S of length 0..n
RECURSIVE SeqsUpTo(_, _)
SeqsUpTo(S, n) ==
  IF n = 0 THEN {<<>>}
  ELSE LET shorter == SeqsUpTo(S, n - 1)
       IN  shorter \cup {Append(s, x) : s \in {t \in shorter : Len(t) = n - 1}, x \in S}

Payloads == SeqsUpTo(PayloadBytes, MaxPayload)
\* a response is the empty byte string or the one byte 'R'
Responses == SeqsUpTo(RespBytes, 1)

Drop(s, n) == SubSeq(s, n + 1, Len(s))
Take(s, n) == SubSeq(s, 1, n)
Min(a, b) == IF a < b THEN a ELSE b

(* ------------------------------ framing -------------------------------- *)
\* struct.pack('!I', n): 4 bytes, most significant first
Pack(n) ==
  << (n \div 16777216) % 256, (n \div 65536) % 256, (n \div 256) % 256, n % 256 >>

\* struct.unpack('!I', b)[0]; struct.error unless b holds exactly 4 bytes
CanUnpack(b) == Len(b) = MILTER_LEN_BYTES
Unpack(b) == b[1] * 16777216 + b[2] * 65536 + b[3] * 256 + b[4]

\* the bytes a client puts on the wire for payload p
EncodeFrame(p) == Pack(Len(p)) \o p

RECURSIVE EncodeAll(_)
EncodeAll(ps) == IF ps = <<>> THEN <<>> ELSE EncodeFrame(Head(ps)) \o EncodeAll(Tail(ps))

(* ----------------------- outcomes of Dispatch -------------------------- *)
\* None, a single response, a list of responses, PpyMilterCloseConnection,
\* any other exception
Outcome(tag, rs) == [tag |-> tag, rs |-> rs]
Outcomes ==
  {Outcome("none", <<>>), Outcome("close", <<>>), Outcome("raise", <<>>)}
    \cup {Outcome("one", <<r>>) : r \in Responses}
    \cup {Outcome("list", rs) : rs \in SeqsUpTo(Responses, MaxResp)}

\* the code after Dispatch without its "elif response:" test: whatever is
\* not a list goes to __send_response, where None, like the empty byte
\* string, has no first byte
ToSendUnguarded(o) ==
  IF o.tag \in {"list", "one"} THEN o.rs ELSE << <<>> >>

\* what the code after Dispatch hands to __send_response, in order:
\* a list is sent element by element, a truthy single response is sent,
\* None and the empty byte string are not
ToSend(o) ==
  IF o.tag = "list" THEN o.rs
  ELSE IF o.tag = "one" /\ o.rs[1] # <<>> THEN o.rs
  ELSE <<>>

(***************************************************************************)
(* conn[c]: one connection slot.                                           *)
(*   kind, state      which handler class serves it; free / open / closed  *)
(*   frames, delivered, sockbuf, eof                                       *)
(*                    the peer: payloads it has sent, how many bytes of    *)
(*                    them have arrived, the bytes arrived and not yet     *)
(*                    read by recv(), and whether it has closed its end    *)
(*   input, terminator, found_terminator, ac_in_buffer, producer_fifo      *)
(*                    the attributes of the asynchat connection handler    *)
(*   pc, packetlen, inbuf, todo                                            *)
(*                    the threaded handler: its position in handle(), its  *)
(*                    locals, and the responses still to be sent; packetlen*)
(*                    is also the local of the reactor's read_packetlen    *)
(*   dispatcher       identity of the PpyMilterDispatcher it constructed   *)
(*   calls, results   history: the argument and outcome of every Dispatch  *)
(*   sent             history: the bytes its socket has accepted           *)
(*   attempt          history: the ordinal of the accept() call it is from *)
(*   failure, cause   history: 0, or 1 + the number of Dispatch calls made *)
(*                    when the first failure other than a close signal     *)
(*                    happened, and what failed: "io" (recv or send        *)
(*                    raised), "header" (struct.error), "dispatch" (the    *)
(*                    Dispatch call raised), "response" (IndexError in     *)
(*                    __send_response)                                     *)
(*   backlog          history: a Dispatch call was made while response     *)
(*                    bytes of an earlier call were still waiting to be    *)
(*                    sent                                                 *)
(* accepting[k]: the listening socket of server k is open.                 *)
(* accepted, acceptErrors: accept() calls that succeeded / failed.         *)
(***************************************************************************)
VARIABLES conn, accepting, accepted, acceptErrors

vars == <<conn, accepting, accepted, acceptErrors>>

FreeConn ==
  [kind |-> "none", state |-> "free",
   frames |-> <<>>, delivered |-> 0, sockbuf |-> <<>>, eof |-> FALSE,
   input |-> <<>>, terminator |-> 0, found_terminator |-> "none",
   ac_in_buffer |-> <<>>, producer_fifo |-> <<>>,
   pc |-> "none", packetlen |-> 0, inbuf |-> <<>>, todo |-> <<>>,
   dispatcher |-> 0, attempt |-> 0, failure |-> 0, cause |-> "none",
   calls |-> <<>>, results |-> <<>>, sent |-> <<>>, backlog |-> FALSE]

Init ==
  /\ conn = [c \in ConnIds |-> FreeConn]
  /\ accepting = [k \in Kinds |-> TRUE]
  /\ accepted = 0
  /\ acceptErrors = 0



\* A connection that closes takes the other open connections of its server
\* down with it (asyncore.close_all() for self.close(), a server shutdown
\* for a handler's return).
UpdateCloseAll(c, r) ==
  [d \in ConnIds |->
     IF d = c THEN r
     ELSE IF /\ conn[c].state = "open" /\ r.state = "closed"
             /\ conn[d].state = "open" /\ conn[d].kind = r.kind
          THEN [conn[d] EXCEPT !.state = "closed"]
          ELSE conn[d]]

\* A handler touches the attributes of its own connection object only.
Update(c, r) == [conn EXCEPT ![c] = r]

\* a failure other than the close signal is on record
Fail(r, cause) ==
  IF r.failure = 0 THEN [r EXCEPT !.failure = Len(r.calls) + 1, !.cause = cause]
  ELSE r

(* --------------------------- the environment --------------------------- *)
\* all bytes the client of r has put on the wire
Stream(r) == EncodeAll(r.frames)

\* A client sends one more frame on an established connection.
ClientSend(c, p) ==
  /\ conn[c].state = "open"
  /\ ~conn[c].eof
  /\ conn' = Update(c, [conn[c] EXCEPT !.frames = Append(@, p)])
  /\ UNCHANGED <<accepting, accepted, acceptErrors>>

\* the next k bytes on the wire reach the socket buffer of r
Deliver(r, k) ==
  [r EXCEPT
     !.sockbuf = @ \o SubSeq(Stream(r), r.delivered + 1, r.delivered + k),
     !.delivered = @ + k]

Arrive(c, k) ==
  /\ conn[c].state = "open"
  /\ ~conn[c].eof
  /\ conn[c].delivered + k <= Len(Stream(conn[c]))
  /\ conn' = Update(c, Deliver(conn[c], k))
  /\ UNCHANGED <<accepting, accepted, acceptErrors>>

\* The peer closes its end: what has arrived so far is all that ever will.
PeerClose(c) ==
  /\ conn[c].state = "open"
  /\ ~conn[c].eof
  /\ conn' = Update(c, [conn[c] EXCEPT !.eof = TRUE])
  /\ UNCHANGED <<accepting, accepted, acceptErrors>>

\* How the socket treats the send calls made during one callback: the room
\* its send buffer has left, or an error (EPIPE, ECONNRESET, ...) on send.
SendRooms == {0, 3, 64}
SockOk == {[room |-> n, err |-> FALSE] : n \in SendRooms}
SockError == [room |-> 0, err |-> TRUE]
SockInputs == SockOk \cup {SockError}
\* a socket that takes every send in full, or fails
SockFull == {[room |-> 64, err |-> FALSE], SockError}
\* how many bytes a blocking send() takes at most before it returns
SendSizes == 1..MILTER_LEN_BYTES
SendFull == {64}

(* ------------------- asyncore / asynchat machinery --------------------- *)
\* asyncore.dispatcher.close(): the channel leaves the socket map and its
\* socket is closed
Close(r) == [r EXCEPT !.state = "closed"]

\* The state of one running callback: the channel, the socket's behaviour
\* for the rest of the callback, and whether an exception is propagating.
Run(ch, sock) == [ch |-> ch, sock |-> sock, exc |-> FALSE]

\* an exception is raised in the callback
Throw(x, cause) == [x EXCEPT !.exc = TRUE, !.ch = Fail(@, cause)]

\* asynchat.async_chat.initiate_send(): one send() of the first queued item
InitiateSend(x) ==
  LET ch == x.ch IN
  IF x.exc \/ ch.producer_fifo = <<>> \/ ch.state # "open" THEN x
  ELSE
    LET first == Head(ch.producer_fifo)
        fifo  == IF first = <<>> THEN Tail(ch.producer_fifo) ELSE ch.producer_fifo
        k     == Min(Len(first), x.sock.room)
    IN  IF x.sock.err
        THEN \* send() raised: handle_close() or handle_error(), both close(),
             \* and initiate_send() returns normally
             [x EXCEPT !.ch = Close(Fail([ch EXCEPT !.producer_fifo = fifo], "io"))]
        ELSE IF k = 0
        THEN [x EXCEPT !.ch.producer_fifo = fifo]
        ELSE [x EXCEPT
               !.ch.sent = @ \o Take(first, k),
               !.ch.producer_fifo =
                  IF k < Len(first) THEN <<Drop(first, k)>> \o Tail(fifo)
                  ELSE Tail(fifo),
               !.sock.room = @ - k]

\* asynchat.async_chat.push(data)
Push(x, data) ==
  IF x.exc THEN x
  ELSE InitiateSend([x EXCEPT !.ch.producer_fifo = Append(@, data)])

(* --------------- AsyncPpyMilterServer.ConnectionHandler ---------------- *)
\* __init__ with the dispatcher held in a class attribute that is built
\* once: every handler refers to the same PpyMilterDispatcher
AsyncConnectionHandlerShared(id) ==
  [FreeConn EXCEPT
     !.kind = "async", !.state = "open", !.dispatcher = 1,
     !.input = <<>>, !.terminator = MILTER_LEN_BYTES,
     !.found_terminator = "read_packetlen"]

\* __init__
AsyncConnectionHandler(id) ==
  [FreeConn EXCEPT
     !.kind = "async", !.state = "open", !.dispatcher = id,
     !.input = <<>>, !.terminator = MILTER_LEN_BYTES,
     !.found_terminator = "read_packetlen"]

\* collect_incoming_data that keeps only the data of the latest call
CollectIncomingDataLatest(x, data) == [x EXCEPT !.ch.input = data]

\* collect_incoming_data
CollectIncomingData(x, data) == [x EXCEPT !.ch.input = @ \o data]

\* read_packetlen
ReadPacketlen(x) ==
  IF ~CanUnpack(x.ch.input) THEN Throw(x, "header")
  ELSE [x EXCEPT
          !.ch.input = <<>>,
          !.ch.packetlen = Unpack(x.ch.input),
          !.ch.terminator = Unpack(x.ch.input),
          !.ch.found_terminator = "read_milter_data"]

\* __send_response: chr(response[0]) raises IndexError on an empty response
AsyncSendResponse(x, response) ==
  IF x.exc THEN x
  ELSE IF response = <<>> THEN Throw(x, "response")
  ELSE Push(Push(x, Pack(Len(response))), response)

RECURSIVE AsyncSendResponses(_, _)
AsyncSendResponses(x, rs) ==
  IF rs = <<>> \/ x.exc THEN x
  ELSE AsyncSendResponses(AsyncSendResponse(x, Head(rs)), Tail(rs))

\* read_milter_data with the re-arming done in a "finally": after a close
\* signal the handler waits for a length header again
ReadMilterDataRearm(x, outcome) ==
  LET x1 == [x EXCEPT
               !.ch.input = <<>>,
               !.ch.calls = Append(@, x.ch.input),
               !.ch.results = Append(@, outcome),
               !.ch.backlog = @ \/ x.ch.producer_fifo # <<>>]
  IN  IF outcome.tag = "raise" THEN Throw(x1, "dispatch")
      ELSE LET x2 == IF outcome.tag = "close" THEN [x1 EXCEPT !.ch = Close(@)]
                     ELSE AsyncSendResponses(x1, ToSend(outcome))
           IN  IF x2.exc THEN x2
               ELSE [x2 EXCEPT
                       !.ch.found_terminator = "read_packetlen",
                       !.ch.terminator = MILTER_LEN_BYTES]

\* read_milter_data, with the outcome of its Dispatch call
ReadMilterData(x, outcome) ==
  LET x1 == [x EXCEPT
               !.ch.input = <<>>,
               !.ch.calls = Append(@, x.ch.input),
               !.ch.results = Append(@, outcome),
               !.ch.backlog = @ \/ x.ch.producer_fifo # <<>>]
  IN  IF outcome.tag = "close" THEN [x1 EXCEPT !.ch = Close(@)]
      ELSE IF outcome.tag = "raise" THEN Throw(x1, "dispatch")
      ELSE LET x2 == AsyncSendResponses(x1, ToSend(outcome))
           IN  IF x2.exc THEN x2
               ELSE [x2 EXCEPT
                       !.ch.found_terminator = "read_packetlen",
                       !.ch.terminator = MILTER_LEN_BYTES]

\* found_terminator(), as currently bound
FoundTerminator(x, outcome) ==
  IF x.ch.found_terminator = "read_packetlen" THEN ReadPacketlen(x)
  ELSE ReadMilterData(x, outcome)

\* the while loop of asynchat.async_chat.handle_read(); script holds the
\* outcomes of the Dispatch calls the loop will make, in order
RECURSIVE HandleReadLoop(_, _)
HandleReadLoop(x, script) ==
  LET buf == x.ch.ac_in_buffer
      lb  == Len(buf)
      n   == x.ch.terminator
  IN  IF x.exc \/ buf = <<>> THEN x
      ELSE IF n = 0
      THEN HandleReadLoop(
             [CollectIncomingData(x, buf) EXCEPT !.ch.ac_in_buffer = <<>>], script)
      ELSE IF lb < n
      THEN HandleReadLoop(
             [CollectIncomingData(x, buf) EXCEPT
                !.ch.ac_in_buffer = <<>>, !.ch.terminator = n - lb], script)
      ELSE LET x1 == [CollectIncomingData(x, Take(buf, n)) EXCEPT
                        !.ch.ac_in_buffer = Drop(buf, n), !.ch.terminator = 0]
               dispatching == x1.ch.found_terminator = "read_milter_data"
           IN  HandleReadLoop(FoundTerminator(x1, Head(script)),
                              IF dispatching THEN Tail(script) ELSE script)

\* asyncore.read(): an exception leaving the callback ends in handle_error(),
\* which closes the channel
Finish(x) == IF x.exc THEN Close(x.ch) ELSE x.ch

\* handle_read() on the bytes recv() returns
HandleRead(r, sock, script) ==
  Finish(HandleReadLoop(
    Run([r EXCEPT !.ac_in_buffer = @ \o r.sockbuf, !.sockbuf = <<>>], sock),
    script))

\* the number of Dispatch calls handle_read() makes on the bytes in the
\* socket buffer when none of them ends the loop early: as many outcomes
\* are inputs of the callback
DispatchesIn(r) ==
  LET none == [i \in 1..Len(r.frames) |-> Outcome("none", <<>>)]
  IN  Len(HandleRead(r, SockError, none).calls) - Len(r.calls)

\* Readable event with data in the socket buffer.
AsyncHandleRead(c, sock, script) ==
  /\ conn[c].kind = "async"
  /\ conn[c].state = "open"
  /\ conn[c].sockbuf # <<>>
  /\ conn' = Update(c, HandleRead(conn[c], sock, script))
  /\ UNCHANGED <<accepting, accepted, acceptErrors>>

\* Readable event at end of stream: recv() returns b'' and asyncore calls
\* handle_close().
AsyncRecvEof(c) ==
  /\ conn[c].kind = "async"
  /\ conn[c].state = "open"
  /\ conn[c].sockbuf = <<>>
  /\ conn[c].eof
  /\ conn' = Update(c, Close(conn[c]))
  /\ UNCHANGED <<accepting, accepted, acceptErrors>>

\* Readable event where recv() raises OSError: handle_close() for a
\* disconnect, handle_error() otherwise.
AsyncRecvError(c) ==
  /\ conn[c].kind = "async"
  /\ conn[c].state = "open"
  /\ conn' = Update(c, Close(Fail(conn[c], "io")))
  /\ UNCHANGED <<accepting, accepted, acceptErrors>>

\* Writable event: handle_write() sends queued output.
AsyncHandleWrite(c, sock) ==
  /\ conn[c].kind = "async"
  /\ conn[c].state = "open"
  /\ conn[c].producer_fifo # <<>>
  /\ conn' = Update(c, Finish(InitiateSend(Run(conn[c], sock))))
  /\ UNCHANGED <<accepting, accepted, acceptErrors>>

(* -------------- ThreadedPpyMilterServer.ConnectionHandler -------------- *)
\* setup()
ThreadedConnectionHandler(id) ==
  [FreeConn EXCEPT
     !.kind = "threaded", !.state = "open", !.dispatcher = id,
     !.pc = "recv_len"]

\* handle() returns (break, or the except clause); socketserver then calls
\* finish() and shutdown_request(), which closes the socket
Return(r) == [r EXCEPT !.state = "closed", !.pc = "done"]

\* an exception reaches "except Exception" in handle()
Raise(r, cause) == Return(Fail(r, cause))

\* what a blocking socket.recv(n) returns: at most n of the buffered bytes,
\* b'' at end of stream
Recv(r, n) == Take(r.sockbuf, Min(n, Len(r.sockbuf)))

\* handle(): packetlen = unpack(recv(MILTER_LEN_BYTES)); inbuf = []; read = 0
RecvLen(r) ==
  LET data == Recv(r, MILTER_LEN_BYTES)
      r1   == [r EXCEPT !.sockbuf = Drop(@, Len(data))]
  IN  IF ~CanUnpack(data) THEN Raise(r1, "header")
      ELSE [r1 EXCEPT
              !.packetlen = Unpack(data), !.inbuf = <<>>,
              !.pc = IF Unpack(data) > 0 THEN "recv_data" ELSE "dispatch"]

ThrRecvLen(c) ==
  /\ conn[c].kind = "threaded"
  /\ conn[c].state = "open"
  /\ conn[c].pc = "recv_len"
  /\ conn[c].sockbuf # <<>> \/ conn[c].eof
  /\ conn' = Update(c, RecvLen(conn[c]))
  /\ UNCHANGED <<accepting, accepted, acceptErrors>>

\* handle(): one turn of "while read < packetlen"
RecvData(r) ==
  LET data == Recv(r, r.packetlen - Len(r.inbuf))
      read == Len(r.inbuf) + Len(data)
  IN  [r EXCEPT
         !.sockbuf = Drop(@, Len(data)),
         !.inbuf = @ \o data,
         !.pc = IF read < r.packetlen THEN "recv_data" ELSE "dispatch"]

ThrRecvData(c) ==
  /\ conn[c].kind = "threaded"
  /\ conn[c].state = "open"
  /\ conn[c].pc = "recv_data"
  /\ conn[c].sockbuf # <<>> \/ conn[c].eof
  /\ conn' = Update(c, RecvData(conn[c]))
  /\ UNCHANGED <<accepting, accepted, acceptErrors>>

\* recv() raises OSError
ThrRecvError(c) ==
  /\ conn[c].kind = "threaded"
  /\ conn[c].state = "open"
  /\ conn[c].pc \in {"recv_len", "recv_data"}
  /\ conn' = Update(c, Raise(conn[c], "io"))
  /\ UNCHANGED <<accepting, accepted, acceptErrors>>

\* handle(): data = b"".join(inbuf); response = Dispatch(data), with the
\* outcome of the call
Dispatch(r, outcome) ==
  LET r1 == [r EXCEPT
               !.calls = Append(@, r.inbuf),
               !.results = Append(@, outcome),
               !.backlog = @ \/ r.todo # <<>>]
  IN  IF outcome.tag = "close" THEN Return(r1)
      ELSE IF outcome.tag = "raise" THEN Raise(r1, "dispatch")
      ELSE [r1 EXCEPT
              !.todo = ToSend(outcome),
              !.pc = IF ToSend(outcome) = <<>> THEN "recv_len" ELSE "send_len"]

ThrDispatch(c, outcome) ==
  /\ conn[c].kind = "threaded"
  /\ conn[c].state = "open"
  /\ conn[c].pc = "dispatch"
  /\ conn' = Update(c, Dispatch(conn[c], outcome))
  /\ UNCHANGED <<accepting, accepted, acceptErrors>>

\* socket.send(data) on a blocking socket that takes at most k bytes; the
\* handler does not look at the count send() returns
Send(r, data, k) == [r EXCEPT !.sent = @ \o Take(data, Min(k, Len(data)))]

\* __send_response: chr(response[0]) raises IndexError on an empty response;
\* otherwise request.send(pack(len(response)))
SendLen(r, k) ==
  LET response == Head(r.todo)
  IN  IF response = <<>> THEN Raise(r, "response")
      ELSE [Send(r, Pack(Len(response)), k) EXCEPT !.pc = "send_data"]

ThrSendLen(c, k) ==
  /\ conn[c].kind = "threaded"
  /\ conn[c].state = "open"
  /\ conn[c].pc = "send_len"
  /\ conn' = Update(c, SendLen(conn[c], k))
  /\ UNCHANGED <<accepting, accepted, acceptErrors>>

\* __send_response: request.send(response); then the next response, or
\* back to the top of "while True"
SendData(r, k) ==
  [Send(r, Head(r.todo), k) EXCEPT
     !.todo = Tail(@),
     !.pc = IF Tail(r.todo) = <<>> THEN "recv_len" ELSE "send_len"]

ThrSendData(c, k) ==
  /\ conn[c].kind = "threaded"
  /\ conn[c].state = "open"
  /\ conn[c].pc = "send_data"
  /\ conn' = Update(c, SendData(conn[c], k))
  /\ UNCHANGED <<accepting, accepted, acceptErrors>>

\* send() raises OSError
ThrSendError(c) ==
  /\ conn[c].kind = "threaded"
  /\ conn[c].state = "open"
  /\ conn[c].pc \in {"send_len", "send_data"}
  /\ conn' = Update(c, Raise(conn[c], "io"))
  /\ UNCHANGED <<accepting, accepted, acceptErrors>>

(* ----------------------------- the listeners --------------------------- *)
\* c is the slot the next accepted connection gets
Free(c) == conn[c].state = "free" /\ \A d \in ConnIds : d < c => conn[d].state # "free"

\* AsyncPpyMilterServer.handle_accept(): accept() succeeded
HandleAccept(c) ==
  /\ accepting["async"]
  /\ Free(c)
  /\ conn' = Update(c, [AsyncConnectionHandler(accepted + 1) EXCEPT
                          !.attempt = accepted + acceptErrors + 1])
  /\ accepted' = accepted + 1
  /\ UNCHANGED <<accepting, acceptErrors>>

\* handle_accept() without its try/except: the socket.error reaches
\* asyncore, whose handle_error() closes the listening socket
AcceptFailedUncaught(a) == [a EXCEPT !["async"] = FALSE]

\* the listening sockets after handle_accept() returned early
AcceptFailed(a) == a

\* AsyncPpyMilterServer.handle_accept(): accept() returned None or raised
\* socket.error
HandleAcceptFails ==
  /\ accepting["async"]
  /\ acceptErrors' = acceptErrors + 1
  /\ accepting' = AcceptFailed(accepting)
  /\ UNCHANGED <<conn, accepted>>

\* ThreadedPpyMilterServer: socketserver accepts and starts a thread that
\* runs the handler's setup() and handle()
ThreadedAccept(c) ==
  /\ accepting["threaded"]
  /\ Free(c)
  /\ conn' = Update(c, [ThreadedConnectionHandler(accepted + 1) EXCEPT
                          !.attempt = accepted + acceptErrors + 1])
  /\ accepted' = accepted + 1
  /\ UNCHANGED <<accepting, acceptErrors>>

(* --------------------------- specifications ---------------------------- *)
\* the steps of the handlers of the connections in C, on sockets that behave
\* as in socks (reactor) and take at most a size in sizes per blocking send
Handlers(C, socks, sizes) ==
  \/ \E c \in C, sock \in socks :
       \E script \in [1..DispatchesIn(conn[c]) -> Outcomes] :
         AsyncHandleRead(c, sock, script)
  \/ \E c \in C : AsyncRecvEof(c)
  \/ \E c \in C : AsyncRecvError(c)
  \/ \E c \in C, sock \in socks : AsyncHandleWrite(c, sock)
  \/ \E c \in C : ThrRecvLen(c)
  \/ \E c \in C : ThrRecvData(c)
  \/ \E c \in C : ThrRecvError(c)
  \/ \E c \in C, o \in Outcomes : ThrDispatch(c, o)
  \/ \E c \in C, k \in sizes : ThrSendLen(c, k)
  \/ \E c \in C, k \in sizes : ThrSendData(c, k)
  \/ \E c \in C : ThrSendError(c)

\* the peers of the connections in C, each sending at most n frames
Peers(C, n) ==
  \/ \E c \in C, p \in Payloads : Len(conn[c].frames) < n /\ ClientSend(c, p)
  \/ \E c \in C, k \in 1..(MILTER_LEN_BYTES + MaxPayload) : Arrive(c, k)
  \/ \E c \in C : PeerClose(c)

\* One connection, served by either server.
Next ==
  \/ HandleAccept(1)
  \/ ThreadedAccept(1)
  \/ Peers({1}, MaxFrames)
  \/ Handlers({1}, SockInputs, SendSizes)

Spec == Init /\ [][Next]_vars

\* a process runs one server: all its connections have handlers of one kind
Serving(kind) ==
  \A d \in ConnIds : conn[d].state = "free" \/ conn[d].kind = kind

\* One server of either class with its listener and up to MaxConns
\* connections.
NextServer ==
  \/ \E c \in ConnIds : Serving("async") /\ HandleAccept(c)
  \/ acceptErrors < MaxAcceptErrors /\ HandleAcceptFails
  \/ \E c \in ConnIds : Serving("threaded") /\ ThreadedAccept(c)
  \/ Peers(ConnIds, ServerFrames)
  \/ Handlers(ConnIds, SockInputs, SendFull)

SpecServer == Init /\ [][NextServer]_vars


(* ------------------------- vocabulary of the claims -------------------- *)
RECURSIVE Flatten(_)
Flatten(ss) == IF ss = <<>> THEN <<>> ELSE Head(ss) \o Flatten(Tail(ss))

\* the connection was accepted
Live(r) == r.state # "free"

\* every byte the peer sent has arrived, and the peer has not closed
AllArrived(r) == r.delivered = Len(Stream(r)) /\ ~r.eof

\* the handler has consumed what arrived: it waits for the next readable
\* event (reactor) or blocks in recv() on an empty socket buffer (thread)
Settled(r) ==
  r.state = "open" =>
    /\ r.sockbuf = <<>>
    /\ ~r.eof
    /\ r.kind = "threaded" => r.pc \in {"recv_len", "recv_data"}

\* the peer's stream is through: the peer has not closed, and the handler
\* has consumed every byte of it or has closed the connection
Consumed(r) == Settled(r) /\ ~r.eof /\ (r.state = "open" => AllArrived(r))

\* the connection is open and waits for a length header
AwaitingHeader(r) ==
  /\ r.state = "open"
  /\ r.kind = "async" =>
       /\ r.found_terminator = "read_packetlen"
       /\ r.terminator = MILTER_LEN_BYTES
       /\ r.input = <<>>
  /\ r.kind = "threaded" => r.pc = "recv_len"

\* Dispatch returned (no close signal, no exception) something that
\* __send_response accepts
Normal(o) ==
  \/ o.tag \in {"none", "one"}
  \/ o.tag = "list" /\ \A i \in 1..Len(o.rs) : o.rs[i] # <<>>
AllNormal(r) == \A i \in 1..Len(r.results) : Normal(r.results[i])

\* the bytes the handler has handed to its socket or queued for it
Written(r) == r.sent \o Flatten(r.producer_fifo)

\* the frames the responses in results encode to, in order
RECURSIVE ExpectedOutput(_)
ExpectedOutput(results) ==
  IF results = <<>> THEN <<>>
  ELSE (IF Head(results).tag \in {"one", "list"} THEN EncodeAll(Head(results).rs)
        ELSE <<>>) \o ExpectedOutput(Tail(results))

(* -------------------------------- claims ------------------------------- *)
\* C1: when the one frame a peer sent has arrived, however its bytes were
\* split over the reads, the handler has made exactly one Dispatch call, with
\* the frame's payload, and (the call having returned normally) waits for a
\* length header again.  Stated for the frames with a payload of at least
\* one byte; C3 is about the others.
C1_OneFrameAnySplit ==
  \A c \in ConnIds :
    LET r == conn[c] IN
    (/\ Live(r) /\ Len(r.frames) = 1 /\ r.frames[1] # <<>>
     /\ Consumed(r) /\ r.cause # "io")
      => /\ r.calls = r.frames
         /\ AllNormal(r) => AwaitingHeader(r)

\* C2: when the N frames a peer sent back-to-back have arrived, however they
\* were split over the reads, and no Dispatch call ended with a close signal
\* or failed, the handler has made exactly N Dispatch calls, the i-th with
\* the payload of the i-th frame.
C2_FramesInOrder ==
  \A c \in ConnIds :
    LET r == conn[c] IN
    (Live(r) /\ Consumed(r) /\ r.cause # "io" /\ AllNormal(r))
      => r.calls = r.frames

\* C3: a frame of length 0 is dispatched once, with the empty payload, and
\* the bytes after it are parsed as the next frame: an open connection that
\* has consumed a stream holding a zero-length frame has dispatched every
\* frame of it.
C3_ZeroLengthFrame ==
  \A c \in ConnIds :
    LET r == conn[c] IN
    (/\ r.state = "open" /\ Consumed(r) /\ AllNormal(r)
     /\ \E i \in 1..Len(r.frames) : r.frames[i] = <<>>)
      => r.calls = r.frames

\* C4: when every Dispatch call so far returned a list of responses (of any
\* lengths, 0 included), the connection has written exactly the frames of
\* those responses, in order, each as 4-byte length and response bytes.
C4_ListFanOut ==
  \A c \in ConnIds :
    LET r == conn[c] IN
    (/\ Live(r) /\ ~r.eof /\ Settled(r) /\ r.cause # "io"
     /\ \A i \in 1..Len(r.results) : r.results[i].tag = "list")
      => Written(r) = ExpectedOutput(r.results)

\* C5: when every Dispatch call so far returned a single response (a byte
\* string of any length, 0 included), the connection has written for each
\* exactly one frame: its 4-byte length followed by its bytes.
C5_SingleResponseFrame ==
  \A c \in ConnIds :
    LET r == conn[c] IN
    (/\ Live(r) /\ ~r.eof /\ Settled(r) /\ r.cause # "io"
     /\ \A i \in 1..Len(r.results) : r.results[i].tag = "one")
      => Written(r) = ExpectedOutput(r.results)


\* a Dispatch call of r ended with the close signal
CloseSignalled(r) == \E i \in 1..Len(r.results) : r.results[i].tag = "close"

\* C6: a Dispatch call that ends with the close signal is the connection's
\* last one and leaves its socket closed (also with further complete frames
\* in the same read); from then on the connection makes no Dispatch call,
\* reads nothing from its socket and writes nothing to it.
C6_CloseIsFinal ==
  /\ [](\A c \in ConnIds :
          LET r == conn[c] IN
          \A i \in 1..Len(r.results) :
            r.results[i].tag = "close" => i = Len(r.results) /\ r.state = "closed")
  /\ [][\A c \in ConnIds :
          CloseSignalled(conn[c]) =>
            /\ conn'[c].state = "closed"
            /\ conn'[c].calls = conn[c].calls
            /\ conn'[c].sockbuf = conn[c].sockbuf
            /\ conn'[c].sent = conn[c].sent]_vars

\* a reactor connection closed by the close signal of its first frame, with
\* the second frame, complete in the same read, left undispatched
C6_Witness ==
  \E c \in ConnIds :
    LET r == conn[c] IN
    /\ r.kind = "async" /\ r.state = "closed" /\ CloseSignalled(r)
    /\ Len(r.frames) = 2 /\ Len(r.calls) = 1
    /\ r.delivered = Len(Stream(r))
    /\ r.input = EncodeFrame(r.frames[2])

\* C7: a failure other than the close signal (undecodable length header,
\* socket I/O error, exception from Dispatch) leaves the connection closed
\* and no Dispatch call is made on it after the failure.
C7_FailureCloses ==
  \A c \in ConnIds :
    LET r == conn[c] IN
    r.failure > 0 => r.state = "closed" /\ Len(r.calls) = r.failure - 1


\* C8: a step in which one connection ends (failure, close signal, peer
\* disconnect) changes nothing of any other connection and nothing of the
\* listeners, and the listeners stay open.
C8_Isolation ==
  /\ [](\A k \in Kinds : accepting[k])
  /\ [][\A a \in ConnIds :
          (conn[a].state = "open" /\ conn'[a].state = "closed") =>
            /\ \A b \in ConnIds \ {a} : conn'[b] = conn[b]
            /\ accepting' = accepting]_vars

\* connection a has failed or was closed by a close signal, and connection
\* b of the same server is open, has had a frame dispatched and answered, and
\* waits for its next frame
C8_Witness ==
  \E a, b \in ConnIds :
    /\ a # b /\ conn[a].kind = conn[b].kind
    /\ conn[a].state = "closed"
    /\ conn[a].failure > 0 \/ CloseSignalled(conn[a])
    /\ Len(conn[b].calls) = 1 /\ conn[b].sent # <<>>
    /\ AwaitingHeader(conn[b])

\* C9: a failed accept() creates no connection and leaves the listener open;
\* after it the listener still accepts: the next connection gets a handler
\* and a dispatcher of its own.
C9_AcceptFailureHarmless ==
  /\ [](accepting["async"])
  /\ [](acceptErrors > 0 => \A c \in ConnIds : Free(c) => ENABLED HandleAccept(c))
  /\ [][acceptErrors' # acceptErrors =>
          conn' = conn /\ accepted' = accepted /\ accepting' = accepting]_vars

\* a reactor connection accepted by the accept() call after a failed one
C9_Witness ==
  \E c \in ConnIds :
    /\ conn[c].kind = "async" /\ conn[c].state = "open"
    /\ acceptErrors > 0
    /\ conn[c].attempt = acceptErrors + conn[c].dispatcher
    /\ \A d \in ConnIds \ {c} : conn[d].dispatcher # conn[c].dispatcher

(* ------------- one peer behaviour against both handlers ---------------- *)
\* The same peer talks to connection 1 (reactor) and connection 2 (thread):
\* every frame is sent to both, every chunk of bytes arrives at both at
\* once, and a chunk arrives only when both handlers have consumed what
\* arrived before.
Pair == {1, 2}

PairSend(p) ==
  /\ \A c \in Pair : Live(conn[c])
  /\ \E c \in Pair : conn[c].state = "open"
  /\ ~conn[1].eof
  /\ Len(conn[1].frames) < ServerFrames
  /\ conn' = [c \in ConnIds |->
                IF c \in Pair THEN [conn[c] EXCEPT !.frames = Append(@, p)]
                ELSE conn[c]]
  /\ UNCHANGED <<accepting, accepted, acceptErrors>>

PairArrive(k) ==
  /\ \A c \in Pair : Live(conn[c]) /\ Settled(conn[c])
  /\ \E c \in Pair : conn[c].state = "open"
  /\ ~conn[1].eof
  /\ conn[1].delivered + k <= Len(Stream(conn[1]))
  /\ conn' = [c \in ConnIds |->
                IF c \notin Pair THEN conn[c]
                ELSE IF conn[c].state = "open" THEN Deliver(conn[c], k)
                ELSE [conn[c] EXCEPT !.delivered = @ + k]]
  /\ UNCHANGED <<accepting, accepted, acceptErrors>>

PairClose ==
  /\ \A c \in Pair : Live(conn[c])
  /\ ~conn[1].eof
  /\ conn' = [c \in ConnIds |->
                IF c \in Pair THEN [conn[c] EXCEPT !.eof = TRUE] ELSE conn[c]]
  /\ UNCHANGED <<accepting, accepted, acceptErrors>>

NextPair ==
  \/ HandleAccept(1)
  \/ ThreadedAccept(2)
  \/ \E p \in Payloads : PairSend(p)
  \/ \E k \in 1..(MILTER_LEN_BYTES + MaxPayload) : PairArrive(k)
  \/ PairClose
  \/ Handlers(Pair, SockInputs, SendFull)

SpecPair == Init /\ [][NextPair]_vars

\* the two connections saw one dispatcher: wherever both made the same
\* calls up to the i-th, the i-th call had the same outcome
SameDispatcher(a, t) ==
  \A i \in 1..Min(Len(a.calls), Len(t.calls)) :
    Take(a.calls, i) = Take(t.calls, i) => a.results[i] = t.results[i]

\* C10: fed the same byte stream in the same chunks, with the same
\* dispatcher outcomes and no socket error, the reactor handler and the
\* threaded handler have made the same Dispatch calls, written the same
\* bytes and are in the same final state.
C10_SameBehaviour ==
  LET a == conn[1]
      t == conn[2]
  IN  (/\ a.kind = "async" /\ t.kind = "threaded"
       /\ a.frames = t.frames /\ a.delivered = t.delivered /\ a.eof = t.eof
       /\ Settled(a) /\ Settled(t)
       /\ a.cause # "io" /\ t.cause # "io"
       /\ SameDispatcher(a, t))
        => /\ a.calls = t.calls
           /\ Written(a) = Written(t)
           /\ a.state = t.state
           /\ AwaitingHeader(a) <=> AwaitingHeader(t)

(* ------------------------------ output --------------------------------- *)
IsPrefix(s, t) == Len(s) <= Len(t) /\ s = Take(t, Len(s))

\* the frames of the responses the handler passed to __send_response for
\* the Dispatch results so far, in the order they were produced
RECURSIVE ResponseFrames(_)
ResponseFrames(results) ==
  IF results = <<>> THEN <<>>
  ELSE EncodeAll(ToSend(Head(results))) \o ResponseFrames(Tail(results))

\* C11: the bytes a connection's socket has accepted are always the start
\* of the concatenation of the whole frames (4-byte length, then all payload
\* bytes) of its responses, in the order they were produced, whatever part
\* of the offered bytes each send call took.
C11_WholeFramesInOrder ==
  \A c \in ConnIds :
    IsPrefix(conn[c].sent, ResponseFrames(conn[c].results))

\* C12: a connection makes its Dispatch calls one after the other, and it
\* makes none while response bytes of an earlier call are still waiting to
\* be written to its socket.
C12_DispatchAfterWrites ==
  \A c \in ConnIds : ~conn[c].backlog

(* ------------------------------ scheduling ----------------------------- *)
\* asyncore.loop() polls every registered channel in each turn and runs the
\* read and write callbacks of those that are ready; every handler thread
\* runs whenever the call it is in can return.
\* the channel of c is readable: its read callback (AsyncHandleRead, or
\* AsyncRecvEof at end of stream) can run
Readable(c) ==
  /\ conn[c].kind = "async" /\ conn[c].state = "open"
  /\ conn[c].sockbuf # <<>> \/ conn[c].eof

Writes(c) ==
  /\ conn[c].kind = "async" /\ conn[c].state = "open"
  /\ conn[c].producer_fifo # <<>>
  /\ \E sock \in SockInputs : AsyncHandleWrite(c, sock)

Thread(c) ==
  /\ conn[c].kind = "threaded" /\ conn[c].state = "open"
  /\ \/ ThrRecvLen(c)
     \/ ThrRecvData(c)
     \/ \E o \in Outcomes : ThrDispatch(c, o)
     \/ \E k \in SendSizes \cup SendFull : ThrSendLen(c, k)
     \/ \E k \in SendSizes \cup SendFull : ThrSendData(c, k)

\* Every run of a read callback takes all the bytes of the socket buffer
\* or closes the channel, so weak fairness of the read callback is: the
\* channel is not readable for ever.
Scheduled(c) ==
  []<>(~Readable(c)) /\ WF_vars(Writes(c)) /\ WF_vars(Thread(c))

\* One connection whose peer sends up to ServerFrames frames, served by
\* either server under that scheduling.
NextOne ==
  \/ HandleAccept(1)
  \/ ThreadedAccept(1)
  \/ Peers({1}, ServerFrames)
  \/ Handlers({1}, SockInputs, SendSizes)

SpecFair == Init /\ [][NextOne]_vars /\ Scheduled(1)

\* C13: once the peer has closed its end, wherever in the framing cycle the
\* connection is, the connection eventually is closed, and the Dispatch calls
\* it made are for frames that arrived whole.
C13_PeerCloseEnds ==
  /\ [](\A c \in ConnIds :
          IsPrefix(EncodeAll(conn[c].calls),
                   Take(Stream(conn[c]), conn[c].delivered)))
  /\ \A c \in ConnIds :
       (conn[c].state = "open" /\ conn[c].eof) ~> (conn[c].state = "closed")

(* ------------------------------ parse state ---------------------------- *)
\* the 4 bytes of the peer's stream that follow the frames dispatched so far
HeaderBytes(r) ==
  LET pos == Len(EncodeAll(r.calls))
  IN  SubSeq(Stream(r), pos + 1, pos + MILTER_LEN_BYTES)

\* the handler waits for (more of) a length header / of a payload
AwaitingLength(r) ==
  \/ r.kind = "async" /\ r.found_terminator = "read_packetlen"
  \/ r.kind = "threaded" /\ r.pc = "recv_len"
AwaitingPayload(r) ==
  \/ r.kind = "async" /\ r.found_terminator = "read_milter_data"
  \/ r.kind = "threaded" /\ r.pc = "recv_data"

\* the bytes accumulated for the header or payload the handler waits for
Accumulator(r) ==
  IF r.kind = "async" THEN r.input
  ELSE IF r.pc = "recv_data" THEN r.inbuf ELSE <<>>

\* C14: an open connection that waits for input waits for a length header,
\* with fewer than 4 bytes accumulated, or for a payload, with fewer bytes
\* accumulated than the expected length, and that length is the big-endian
\* value of the 4 header bytes of the frame.
C14_ParseState ==
  \A c \in ConnIds :
    LET r == conn[c] IN
    (r.state = "open" /\ Settled(r)) =>
      /\ AwaitingLength(r) \/ AwaitingPayload(r)
      /\ AwaitingLength(r) => Len(Accumulator(r)) < MILTER_LEN_BYTES
      /\ AwaitingPayload(r) =>
           /\ Len(HeaderBytes(r)) = MILTER_LEN_BYTES
           /\ r.packetlen = Unpack(HeaderBytes(r))
           /\ Len(Accumulator(r)) < r.packetlen

(* ------------------------------ dispatchers ---------------------------- *)
\* C15: every accepted connection has a dispatcher, constructed when the
\* connection is set up; no two connections ever refer to the same one, and
\* a connection's dispatcher is never replaced.
C15_OwnDispatcher ==
  /\ [](\A c \in ConnIds :
          Live(conn[c]) =>
            /\ conn[c].dispatcher > 0
            /\ \A d \in ConnIds \ {c} :
                 Live(conn[d]) => conn[d].dispatcher # conn[c].dispatcher)
  /\ [][\A c \in ConnIds :
          /\ Live(conn[c]) => conn'[c].dispatcher = conn[c].dispatcher
          /\ (~Live(conn[c]) /\ Live(conn'[c])) =>
               \A d \in ConnIds : conn[d].dispatcher # conn'[c].dispatcher]_vars

\* two connections of one server, each of which has made a Dispatch call on
\* its own dispatcher
C15_Witness ==
  \E c, d \in ConnIds :
    /\ c # d /\ conn[c].kind = conn[d].kind
    /\ Len(conn[c].calls) = 1 /\ Len(conn[d].calls) = 1
    /\ conn[c].dispatcher # conn[d].dispatcher
    /\ conn[c].dispatcher > 0 /\ conn[d].dispatcher > 0

(* ------------------------------- progress ------------------------------ *)
\* the listeners: asyncore.loop() runs handle_accept() when a connection is
\* pending, serve_forever() accepts and starts the handler thread
Accepts ==
  \/ \E c \in ConnIds : Serving("async") /\ HandleAccept(c)
  \/ \E c \in ConnIds : Serving("threaded") /\ ThreadedAccept(c)

\* One server of either class with up to MaxConns connections, under the
\* scheduling of its reactor loop or of its threads.
SpecServerFair ==
  SpecServer /\ WF_vars(Accepts) /\ \A c \in ConnIds : Scheduled(c)

\* the peer of r has stopped in the middle of a frame: part of the frame has
\* arrived and was consumed, the rest has not arrived, the socket is open
Stalled(r) ==
  /\ r.state = "open" /\ Settled(r)
  /\ Len(EncodeAll(r.calls)) < r.delivered
  /\ r.delivered < Len(Stream(r))

\* a whole frame has arrived on the open connection r and waits for it
FrameReady(r) ==
  /\ r.state = "open" /\ ~r.eof
  /\ r.calls = <<>> /\ r.frames # <<>>
  /\ r.delivered = Len(Stream(r))

\* the frame was dispatched and what Dispatch returned for it is written
Answered(r) ==
  /\ r.calls # <<>>
  /\ r.producer_fifo = <<>> /\ r.todo = <<>>
  /\ r.kind = "threaded" => r.pc \in {"recv_len", "recv_data"}

\* C16: while the peer of one connection is stalled in the middle of a
\* frame, a whole frame that has arrived on another open connection is
\* eventually dispatched and answered (unless that connection is closed
\* first), and a free connection slot is eventually taken by an accept.
C16_NoStarvation ==
  /\ \A a, b \in ConnIds :
       (a # b /\ Stalled(conn[a]) /\ FrameReady(conn[b]))
         ~> (Answered(conn[b]) \/ conn[b].state = "closed")
  /\ \A c \in ConnIds : Free(c) ~> Live(conn[c])

(* ------------------------------ no response ---------------------------- *)
NoResponse == Outcome("none", <<>>)

\* read_milter_data on channel r with Dispatch returning None writes and
\* queues nothing and leaves the channel open, waiting for a length header
AsyncNoResponse(r) ==
  \A sock \in SockInputs :
    LET y == ReadMilterData(Run(r, sock), NoResponse)
    IN  /\ ~y.exc /\ y.ch.state = "open"
        /\ y.ch.sent = r.sent /\ y.ch.producer_fifo = r.producer_fifo
        /\ AwaitingHeader(y.ch)

\* the same for the Dispatch call of handle()
ThreadedNoResponse(r) ==
  LET q == Dispatch(r, NoResponse)
  IN  /\ q.state = "open" /\ q.sent = r.sent /\ q.todo = <<>>
      /\ AwaitingHeader(q)

\* C17: a Dispatch call that returns None writes nothing to the socket,
\* leaves the pending output as it is, leaves the connection open and the
\* handler waiting for a length header: in every reachable state of an open
\* connection that is so for the next Dispatch call, and a connection all of
\* whose Dispatch calls returned None has written and queued nothing and is
\* closed only by an I/O error or an undecodable header.
C17_NoResponse ==
  \A c \in ConnIds :
    LET r == conn[c] IN
    /\ (r.kind = "async" /\ r.state = "open") => AsyncNoResponse(r)
    /\ (r.kind = "threaded" /\ r.state = "open" /\ r.pc = "dispatch")
         => ThreadedNoResponse(r)
    /\ (Live(r) /\ \A i \in 1..Len(r.results) : r.results[i] = NoResponse)
         => /\ Written(r) = <<>> /\ r.todo = <<>>
            /\ r.state = "closed" => r.cause \in {"io", "header"} \/ r.eof
            /\ (r.state = "open" /\ r.sockbuf = <<>>
                /\ r.delivered = Len(EncodeAll(r.calls))) => AwaitingHeader(r)

\* a reactor connection whose second Dispatch call returned None while the
\* response of the first was queued: the response is still queued, and the
\* connection is open and waits for a length header
C17_Witness ==
  \E c \in ConnIds :
    LET r == conn[c] IN
    /\ r.kind = "async" /\ r.state = "open"
    /\ Len(r.results) = 2 /\ r.results[1].tag = "one" /\ r.results[2] = NoResponse
    /\ r.producer_fifo # <<>>
    /\ AwaitingHeader(r)

(* ------------------------------ flushing ------------------------------- *)
\* C18: when a connection is closed because a Dispatch call ended with the
\* close signal or raised, every response frame of the calls before it has
\* been written to the socket in full.
C18_FlushedBeforeClose ==
  \A c \in ConnIds :
    LET r == conn[c] IN
    (r.state = "closed" /\ (CloseSignalled(r) \/ r.cause = "dispatch"))
      => r.sent = ResponseFrames(r.results)

(* ------------------------------ inbound bytes -------------------------- *)
\* the bytes the handler has taken from its socket
BytesRead(r) == Take(Stream(r), r.delivered - Len(r.sockbuf))

\* the bytes of the frame the handler is accumulating: the header bytes so
\* far, or the decoded header and the payload bytes so far
Accumulating(r) ==
  IF r.kind = "async"
  THEN (IF r.found_terminator = "read_packetlen" THEN r.input
        ELSE Pack(r.packetlen) \o r.input) \o r.ac_in_buffer
  ELSE IF r.pc \in {"recv_data", "dispatch"} THEN Pack(r.packetlen) \o r.inbuf
  ELSE <<>>

\* C19: on an open connection the frames dispatched so far (4 header bytes
\* and payload each, in order), followed by the bytes of the frame being
\* accumulated, are exactly the bytes read from the socket so far.
C19_NoByteLost ==
  \A c \in ConnIds :
    LET r == conn[c] IN
    r.state = "open" => EncodeAll(r.calls) \o Accumulating(r) = BytesRead(r)

\* an open connection that has dispatched one frame and holds the first
\* bytes of the next frame's header, the peer's bytes having come in parts
C19_Witness ==
  \E c \in ConnIds :
    LET r == conn[c] IN
    /\ r.kind = "async" /\ r.state = "open"
    /\ Len(r.calls) = 1 /\ r.calls[1] # <<>>
    /\ r.found_terminator = "read_packetlen"
    /\ Len(r.input) = 2 /\ r.sockbuf # <<>>

=============================================================================
